---- MODULE Spec2Model ----
(***************************************************************************)
(* Model of futaba's welcome-message configuration model                   *)
(* (futaba/sql/models/welcome.py): a dict cache keyed by guild in front of *)
(* the SQL table 'welcome', plus the platform state the model reads        *)
(* (guild.text_channels), the listeners of the tracking cog              *)
(* (futaba/cogs/journal/tracking.py) and the 'message' command of the      *)
(* info cog (futaba/cogs/info/core.py).                                    *)
(*                                                                         *)
(* Every method of WelcomeModel is synchronous, so one call is one step.   *)
(* A call ends by returning or by raising; sql.execute may raise for any   *)
(* statement (the environment chooses), and a raise ends the call at that  *)
(* statement, leaving what the earlier statements of the call did.         *)
(***************************************************************************)
EXTENDS Naturals, Sequences, FiniteSets, TLC

\* ---------------------------------------------------------------- values

\* Python's None.
None == "None"

\* The guilds (scopes) the bot is in.
Guilds == {"g1", "g2"}

\* The text channels known to the platform, and the guild of each.
Channels == {"c1", "c2"}

ChannelGuild == [c \in Channels |-> IF c = "c1" THEN "g1" ELSE "g2"]

\* Message texts a caller may pass to a setter.
Msgs == {"a", "b"}

\* Cap on the number of process restarts in one behaviour.
MaxRestarts == 1

\* Cap on the number of WelcomeModel calls in one behaviour.
MaxCalls == 4

\* The users, and the ids of the messages, that platform events and
\* commands speak of.
Users == {"u1", "u2"}

MsgIds == {"101", "102"}

\* Cap on the number of ids given to one 'message' command.
MaxIds == 4

\* Outcomes of a call.
OK == "ok"
StorageError == "StorageError"      \* sql.execute raised
IntegrityError == "IntegrityError"  \* primary key violated on insert
AssertionFailed == "AssertionError"
KeyErrorRaised == "KeyError"

VARIABLES
    cache,          \* WelcomeModel.cache: guild -> WelcomeStorage
    store,          \* rows of table 'welcome': guild_id -> row
    text_channels,  \* guild.text_channels of every guild
    restarts,       \* number of restarts so far
    calls,          \* number of WelcomeModel calls so far
    journal,        \* journal sends made by the last tracking event
    last,           \* the last call: its arguments, outcome and pre-state
    gen,            \* per guild, the number of the WelcomeStorage object in
                    \* the cache (0 without entry)
    held,           \* per guild, the objects get_welcome has returned since
                    \* the guild got its cache entry
    accessed,       \* guilds passed to add_welcome, get_welcome or a setter
                    \* and not removed since
    event,          \* the last platform event given to the tracking cog
    cmd             \* the last 'message' command and what it sent

vars == <<cache, store, text_channels, restarts, calls, journal, last,
          gen, held, accessed, event, cmd>>

\* ------------------------------------------------------- WelcomeStorage

\* discord.utils.get(guild.text_channels, id=welcome_channel_id)
utils_get(chans, id) == IF id \in chans THEN id ELSE None

\* WelcomeStorage.__init__; a channel object is identified with its id.
WelcomeStorage(guild, wm, gm, am, doa, chid) ==
    [guild |-> guild,
     welcome_message |-> wm,
     goodbye_message |-> gm,
     agreed_message |-> am,
     delete_on_agree |-> doa,
     welcome_channel |-> utils_get(text_channels[guild], chid)]

\* WelcomeStorage.welcome_channel_id: getattr(self.welcome_channel, 'id', None)
welcome_channel_id(storage) == storage.welcome_channel

\* WelcomeStorage(guild) with every default argument.
DefaultStorage(guild) == WelcomeStorage(guild, None, None, None, TRUE, None)

\* ------------------------------------------------------------ the table

\* INSERT into a table whose guild_id is no primary key: the new row
\* takes the place of the guild's row.
sql_insert_no_key(st, gid, row, fail) ==
    IF fail THEN [store |-> st, outcome |-> StorageError]
    ELSE [store |-> [x \in DOMAIN st \cup {gid} |->
                        IF x = gid THEN row ELSE st[x]],
          outcome |-> OK]

\* INSERT: the primary key guild_id rejects a second row for the guild.
\* A column the statement leaves out (agreed_message) is NULL.
sql_insert(st, gid, row, fail) ==
    IF fail THEN [store |-> st, outcome |-> StorageError]
    ELSE IF gid \in DOMAIN st THEN [store |-> st, outcome |-> IntegrityError]
    ELSE [store |-> st @@ (gid :> row), outcome |-> OK]

\* UPDATE without the WHERE clause: the column of every row.
sql_update_no_where(st, gid, col, value, fail) ==
    IF fail THEN [store |-> st, outcome |-> StorageError]
    ELSE [store |-> [x \in DOMAIN st |-> [st[x] EXCEPT ![col] = value]],
          outcome |-> OK]

\* UPDATE ... WHERE guild_id = gid: one column of the matching row, if any.
sql_update(st, gid, col, value, fail) ==
    IF fail THEN [store |-> st, outcome |-> StorageError]
    ELSE IF gid \in DOMAIN st
         THEN [store |-> [st EXCEPT ![gid][col] = value], outcome |-> OK]
         ELSE [store |-> st, outcome |-> OK]

\* DELETE ... WHERE guild_id = gid
sql_delete(st, gid, fail) ==
    IF fail THEN [store |-> st, outcome |-> StorageError]
    ELSE [store |-> [x \in DOMAIN st \ {gid} |-> st[x]], outcome |-> OK]

\* ---------------------------------------------------------- WelcomeModel

\* What a call leaves behind: the cache, the table, how the call ended, the
\* statements it executed, (for get_welcome) the record it returned, and
\* whether it assigned a newly built WelcomeStorage to self.cache[guild].
Call(c, s, o, stmts, res) ==
    [cache |-> c, store |-> s, outcome |-> o, stmts |-> stmts, result |-> res,
     made |-> FALSE]

\* The call assigned a new WelcomeStorage object to self.cache[guild].
Made(r) == [r EXCEPT !.made = TRUE]

\* add_welcome with the cache assignment moved before sql.execute.
add_welcome_cache_first(c, s, guild, fail) ==
    LET storage == DefaultStorage(guild)
        row == [welcome_message |-> storage.welcome_channel,
                goodbye_message |-> storage.goodbye_message,
                agreed_message |-> None,
                delete_on_agree |-> storage.delete_on_agree,
                welcome_channel_id |-> welcome_channel_id(storage)]
        ins == sql_insert(s, guild, row, fail)
    IN  Made(Call([x \in DOMAIN c \cup {guild} |->
                      IF x = guild THEN storage ELSE c[x]],
                  ins.store, ins.outcome, <<"insert">>, <<>>))

\* WelcomeModel.add_welcome
add_welcome(c, s, guild, fail) ==
    LET storage == DefaultStorage(guild)
        row == [welcome_message |-> storage.welcome_channel,
                goodbye_message |-> storage.goodbye_message,
                agreed_message |-> None,
                delete_on_agree |-> storage.delete_on_agree,
                welcome_channel_id |-> welcome_channel_id(storage)]
        ins == sql_insert(s, guild, row, fail)
    IN  IF ins.outcome # OK
        THEN Call(c, ins.store, ins.outcome, <<"insert">>, <<>>)
        ELSE Made(Call([x \in DOMAIN c \cup {guild} |->
                           IF x = guild THEN storage ELSE c[x]],
                       ins.store, OK, <<"insert">>, <<>>))

\* del_welcome that leaves the cache entry in place.
del_welcome_keeps_entry(c, s, guild, fail) ==
    LET delet == sql_delete(s, guild, fail)
    IN  Call(c, delet.store, delet.outcome, <<"delete">>, <<>>)

\* del_welcome with self.cache.pop(guild), which raises without an entry.
del_welcome_strict_pop(c, s, guild, fail) ==
    LET delet == sql_delete(s, guild, fail)
    IN  IF delet.outcome # OK
        THEN Call(c, delet.store, delet.outcome, <<"delete">>, <<>>)
        ELSE IF guild \notin DOMAIN c
        THEN Call(c, delet.store, KeyErrorRaised, <<"delete">>, <<>>)
        ELSE Call([x \in DOMAIN c \ {guild} |-> c[x]],
                  delet.store, OK, <<"delete">>, <<>>)

\* WelcomeModel.del_welcome
del_welcome(c, s, guild, fail) ==
    LET delet == sql_delete(s, guild, fail)
    IN  IF delet.outcome # OK
        THEN Call(c, delet.store, delet.outcome, <<"delete">>, <<>>)
        ELSE Call([x \in DOMAIN c \ {guild} |-> c[x]],
                  delet.store, OK, <<"delete">>, <<>>)

\* The part of get_welcome after its cache lookup.
get_welcome_load(c, s, guild, failSel, failIns, before) ==
    IF failSel
    THEN Call(c, s, StorageError, before \o <<"select">>, <<>>)
    ELSE IF guild \notin DOMAIN s
    THEN LET add == add_welcome(c, s, guild, failIns)
         IN  IF add.outcome # OK
             THEN [Call(add.cache, add.store, add.outcome,
                        before \o <<"select">> \o add.stmts, <<>>)
                      EXCEPT !.made = add.made]
             ELSE [Call(add.cache, add.store, OK,
                        before \o <<"select">> \o add.stmts,
                        <<add.cache[guild]>>)
                      EXCEPT !.made = add.made]
    ELSE LET row == s[guild]
             welcome == WelcomeStorage(guild,
                                       row.welcome_message,
                                       row.goodbye_message,
                                       row.agreed_message,
                                       row.delete_on_agree,
                                       row.welcome_channel_id)
         IN  Made(Call([x \in DOMAIN c \cup {guild} |->
                           IF x = guild THEN welcome ELSE c[x]],
                       s, OK, before \o <<"select">>, <<welcome>>))

\* get_welcome without the cache lookup: every call loads the row and
\* builds a new WelcomeStorage.
get_welcome_always_loads(c, s, guild, failSel, failIns) ==
    get_welcome_load(c, s, guild, failSel, failIns, <<>>)

\* get_welcome that executes its SELECT before it looks into the cache.
get_welcome_select_first(c, s, guild, failSel, failIns) ==
    IF failSel
    THEN Call(c, s, StorageError, <<"select">>, <<>>)
    ELSE IF guild \in DOMAIN c
    THEN Call(c, s, OK, <<"select">>, <<c[guild]>>)
    ELSE get_welcome_load(c, s, guild, FALSE, failIns, <<>>)

\* get_welcome that executes a failed SELECT a second time before raising.
get_welcome_retry_select(c, s, guild, failSel, failIns) ==
    IF guild \in DOMAIN c
    THEN Call(c, s, OK, <<>>, <<c[guild]>>)
    ELSE get_welcome_load(c, s, guild, failSel, failIns,
                          IF failSel THEN <<"select">> ELSE <<>>)

\* get_welcome without the add_welcome fallback: with no row it goes
\* straight to 'return self.cache[guild]'.
get_welcome_no_fallback(c, s, guild, failSel, failIns) ==
    IF guild \in DOMAIN c
    THEN Call(c, s, OK, <<>>, <<c[guild]>>)
    ELSE IF failSel
    THEN Call(c, s, StorageError, <<"select">>, <<>>)
    ELSE IF guild \notin DOMAIN s
    THEN Call(c, s, KeyErrorRaised, <<"select">>, <<>>)
    ELSE LET row == s[guild]
             welcome == WelcomeStorage(guild,
                                       row.welcome_message,
                                       row.goodbye_message,
                                       row.agreed_message,
                                       row.delete_on_agree,
                                       row.welcome_channel_id)
         IN  Made(Call([x \in DOMAIN c \cup {guild} |->
                           IF x = guild THEN welcome ELSE c[x]],
                       s, OK, <<"select">>, <<welcome>>))

\* WelcomeModel.get_welcome; failSel and failIns are the fates of its SELECT
\* and of the INSERT of the add_welcome it falls back to.
get_welcome(c, s, guild, failSel, failIns) ==
    IF guild \in DOMAIN c
    THEN Call(c, s, OK, <<>>, <<c[guild]>>)
    ELSE IF failSel
    THEN Call(c, s, StorageError, <<"select">>, <<>>)
    ELSE IF guild \notin DOMAIN s
    THEN LET add == add_welcome(c, s, guild, failIns)
         IN  IF add.outcome # OK
             THEN [Call(add.cache, add.store, add.outcome,
                        <<"select">> \o add.stmts, <<>>)
                      EXCEPT !.made = add.made]
             ELSE [Call(add.cache, add.store, OK,
                        <<"select">> \o add.stmts, <<add.cache[guild]>>)
                      EXCEPT !.made = add.made]
    ELSE LET row == s[guild]
             welcome == WelcomeStorage(guild,
                                       row.welcome_message,
                                       row.goodbye_message,
                                       row.agreed_message,
                                       row.delete_on_agree,
                                       row.welcome_channel_id)
         IN  Made(Call([x \in DOMAIN c \cup {guild} |->
                           IF x = guild THEN welcome ELSE c[x]],
                       s, OK, <<"select">>, <<welcome>>))

\* A setter with the cache assignment moved before sql.execute.
set_attr_cache_first(c, s, guild, col, colValue, attr, attrValue, fail) ==
    IF guild \notin DOMAIN c
    THEN Call(c, s, KeyErrorRaised, <<>>, <<>>)
    ELSE LET upd == sql_update(s, guild, col, colValue, fail)
         IN  Call([c EXCEPT ![guild][attr] = attrValue],
                  upd.store, upd.outcome, <<"update">>, <<>>)

\* The common shape of the setters: the UPDATE, then the assignment to the
\* attribute of self.cache[guild], which raises KeyError without an entry.
set_attr(c, s, guild, col, colValue, attr, attrValue, fail) ==
    LET upd == sql_update(s, guild, col, colValue, fail)
    IN  IF upd.outcome # OK
        THEN Call(c, upd.store, upd.outcome, <<"update">>, <<>>)
        ELSE IF guild \notin DOMAIN c
        THEN Call(c, upd.store, KeyErrorRaised, <<"update">>, <<>>)
        ELSE Call([c EXCEPT ![guild][attr] = attrValue],
                  upd.store, OK, <<"update">>, <<>>)

\* WelcomeModel.set_welcome_message
set_welcome_message(c, s, guild, welcome_message, fail) ==
    set_attr(c, s, guild, "welcome_message", welcome_message,
             "welcome_message", welcome_message, fail)

\* WelcomeModel.set_goodbye_message
set_goodbye_message(c, s, guild, goodbye_message, fail) ==
    set_attr(c, s, guild, "goodbye_message", goodbye_message,
             "goodbye_message", goodbye_message, fail)

\* WelcomeModel.set_agreed_message
set_agreed_message(c, s, guild, agreed_message, fail) ==
    set_attr(c, s, guild, "agreed_message", agreed_message,
             "agreed_message", agreed_message, fail)

\* set_delete_on_agree with the cache assignment before sql.execute.
set_delete_on_agree_cache_first(c, s, guild, value, fail) ==
    IF guild \notin DOMAIN c
    THEN Call(c, s, KeyErrorRaised, <<>>, <<>>)
    ELSE LET upd == sql_update(s, guild, "delete_on_agree", value, fail)
         IN  Call([c EXCEPT ![guild]["delete_on_agree"] = value],
                  upd.store, upd.outcome, <<"update">>, <<>>)

\* WelcomeModel.set_delete_on_agree
set_delete_on_agree(c, s, guild, value, fail) ==
    set_attr(c, s, guild, "delete_on_agree", value,
             "delete_on_agree", value, fail)

\* set_welcome_channel without its assert.
set_welcome_channel_no_assert(c, s, guild, channel, fail) ==
    set_attr(c, s, guild, "welcome_channel_id", channel,
             "welcome_channel", channel, fail)

\* WelcomeModel.set_welcome_channel; the assert comes before any statement.
set_welcome_channel(c, s, guild, channel, fail) ==
    IF channel # None /\ guild # ChannelGuild[channel]
    THEN Call(c, s, AssertionFailed, <<>>, <<>>)
    ELSE set_attr(c, s, guild, "welcome_channel_id", channel,
                  "welcome_channel", channel, fail)

\* ------------------------------------------------------------- Tracking

\* self.journal.send(topic, guild, content, icon=icon); the content is the
\* tuple of the values its f-string interpolates.
Send(topic, guild, content, icon) ==
    [topic |-> topic, guild |-> guild, content |-> content, icon |-> icon]

\* A platform event: its kind, the guild it occurred in (None for a direct
\* message), its channel, the acting user and the message id.
Event(kind, guild, channel, user, message) ==
    [kind |-> kind, guild |-> guild, channel |-> channel, user |-> user,
     message |-> message]

NoEvent == Event("none", None, None, None, None)

\* Tracking.on_typing. A DMChannel has no guild: the handler ends without a
\* send whether 'channel.guild' evaluates to None or raises.
on_typing(guild, channel, user) ==
    IF guild = None THEN <<>>
    ELSE <<Send("typing", guild, <<user, channel>>, "typing")>>

\* Tracking.on_message
on_message(guild, channel, author, id) ==
    IF guild = None THEN <<>>
    ELSE <<Send("message/new", guild, <<author, channel>>, "message")>>

\* Tracking.on_message_edit
on_message_edit(guild, channel, author, id) ==
    IF guild = None THEN <<>>
    ELSE <<Send("message/edit", guild, <<author, id, channel>>, "edit")>>

\* Tracking.on_message_delete
on_message_delete(guild, channel, author, id) ==
    IF guild = None THEN <<>>
    ELSE <<Send("message/delete", guild, <<id, author>>, "delete")>>

\* Tracking.on_reaction_add
on_reaction_add(guild, channel, user, id) ==
    IF guild = None THEN <<>>
    ELSE <<Send("reaction/add", guild, <<user, id, channel>>, "item_add")>>

\* on_reaction_remove copied from on_reaction_add with its topic left.
on_reaction_remove_add_topic(guild, channel, user, id) ==
    IF guild = None THEN <<>>
    ELSE <<Send("reaction/add", guild, <<user, id, channel>>, "item_remove")>>

\* Tracking.on_reaction_remove
on_reaction_remove(guild, channel, user, id) ==
    IF guild = None THEN <<>>
    ELSE <<Send("reaction/remove", guild, <<user, id, channel>>, "item_remove")>>

\* Tracking.on_reaction_clear
on_reaction_clear(guild, channel, id) ==
    IF guild = None THEN <<>>
    ELSE <<Send("reaction/clear", guild, <<id, channel>>, "item_clear")>>

\* Tracking.on_guild_channel_delete
on_guild_channel_delete(guild, channel) ==
    <<Send("channel/delete", guild, <<channel>>, "delete")>>

\* The places an event can occur in: a text channel of a guild, or a direct
\* message, which has no guild.
Places ==
    {<<ChannelGuild[ch], ch>> : ch \in UNION {text_channels[g] : g \in Guilds}}
        \cup {<<None, "dm">>}

\* A listener ran for an event and made the given sends.
Track(kind, place, user, id, sends) ==
    /\ event' = Event(kind, place[1], place[2], user, id)
    /\ journal' = sends
    /\ UNCHANGED <<cache, store, text_channels, restarts, calls, last,
                   gen, held, accessed, cmd>>

\* ----------------------------------------------------------------- Info

\* A Python iterable over a sequence of items: a tuple can be iterated any
\* number of times, an iterator (as itertools.islice returns) gives each of
\* its items once.
Tuple(items) == [kind |-> "tuple", items |-> items, pos |-> 0]

Min(a, b) == IF a < b THEN a ELSE b

\* itertools.islice(ids, 0, stop)
islice(ids, stop) ==
    [kind |-> "iterator",
     items |-> SubSeq(ids.items, 1, Min(stop, Len(ids.items))),
     pos |-> 0]

\* The items an iteration over the iterable gives from now on.
Remaining(it) == SubSeq(it.items, it.pos + 1, Len(it.items))

\* The iterable after an iteration to its end.
Exhausted(it) ==
    IF it.kind = "tuple" THEN it ELSE [it EXCEPT !.pos = Len(it.items)]

\* zip(a, ids) of a list a with an iterable
zip(a, it) ==
    [i \in 1..Min(Len(a), Len(Remaining(it))) |-> <<a[i], Remaining(it)[i]>>]

\* Info.get_message: the message with the id in one of the channels, or
\* None when every channel raised discord.NotFound.
get_message(existing, id) == IF id \in existing THEN id ELSE None

\* Info.get_messages: one get_message for every id the iterable gives.
get_messages(existing, ids) ==
    [i \in 1..Len(Remaining(ids)) |-> get_message(existing, Remaining(ids)[i])]

\* make_embed inside Info.message
make_embed(message, id) ==
    [kind |-> "embed", id |-> id, found |-> message # None]

\* Info.message, for a caller who is a moderator or not (check_mod_perm),
\* the ids given, and the set of ids of the messages the guild has: the
\* sends it makes in order and the reaction it adds.
message(mod, idseq, existing) ==
    LET ids0 == Tuple(idseq)
        limit == ~mod /\ Len(idseq) > 3
        ids1 == IF limit THEN islice(ids0, 3) ELSE ids0
        notice == IF limit
                  THEN <<[kind |-> "content",
                          id |-> None,
                          found |-> FALSE]>>
                  ELSE <<>>
        messages == get_messages(existing, ids1)
        ids2 == Exhausted(ids1)
        pairs == zip(messages, ids2)
        embeds == [i \in 1..Len(pairs) |-> make_embed(pairs[i][1], pairs[i][2])]
    IN  [sent |-> notice \o embeds, reaction |-> "SUCCESS"]

\* A 'message' command: who called it with which ids, and what it did.
Command(mod, idseq, existing, r) ==
    [op |-> "message", mod |-> mod, ids |-> idseq, existing |-> existing,
     sent |-> r.sent, reaction |-> r.reaction]

NoCommand ==
    [op |-> "none", mod |-> FALSE, ids |-> <<>>, existing |-> {},
     sent |-> <<>>, reaction |-> None]

\* The sequences of message ids of a length up to n.
IdSeqs(n) == UNION {[1..k -> MsgIds] : k \in 0..n}

\* ---------------------------------------------------------------- state

\* The row of a guild and its cache entry, as sequences of length 0 or 1.
RowOf(s, guild) == IF guild \in DOMAIN s THEN <<s[guild]>> ELSE <<>>

EntryOf(c, guild) == IF guild \in DOMAIN c THEN <<c[guild]>> ELSE <<>>

\* The record of a call: what was called with what, how it ended, the row
\* and the cache entry of its guild before the call, and, when the step
\* before it was a del_welcome of the guild that returned, the row the
\* guild had before that del_welcome.
Record(op, guild, field, value, r) ==
    [op |-> op, guild |-> guild, field |-> field, value |-> value,
     outcome |-> r.outcome, stmts |-> r.stmts, result |-> r.result,
     old_row |-> RowOf(store, guild), old_entry |-> EntryOf(cache, guild),
     after_del |-> IF /\ last.op = "del_welcome"
                         /\ last.guild = guild
                         /\ last.outcome = OK
                      THEN <<last.old_row>> ELSE <<>>]

NoCall ==
    [op |-> "none", guild |-> None, field |-> None, value |-> None,
     outcome |-> OK, stmts |-> <<>>, result |-> <<>>,
     old_row |-> <<>>, old_entry |-> <<>>,
     after_del |-> <<>>]

\* WelcomeModel.__init__ over an empty table; both channels exist.
Init ==
    /\ cache = <<>>
    /\ store = <<>>
    /\ text_channels = [g \in Guilds |-> {ch \in Channels : ChannelGuild[ch] = g}]
    /\ restarts = 0
    /\ calls = 0
    /\ journal = <<>>
    /\ last = NoCall
    /\ gen = [g \in Guilds |-> 0]
    /\ held = [g \in Guilds |-> {}]
    /\ accessed = {}
    /\ event = NoEvent
    /\ cmd = NoCommand

Finish(op, guild, field, value, r) ==
    /\ calls < MaxCalls
    /\ calls' = calls + 1
    /\ cache' = r.cache
    /\ store' = r.store
    /\ last' = Record(op, guild, field, value, r)
    /\ gen' = [gen EXCEPT ![guild] =
                  IF guild \notin DOMAIN r.cache THEN 0
                  ELSE IF r.made THEN @ + 1 ELSE @]
    /\ held' = [held EXCEPT ![guild] =
                   IF guild \notin DOMAIN r.cache THEN {}
                   ELSE IF op = "get_welcome" /\ r.outcome = OK
                        THEN @ \cup {gen'[guild]} ELSE @]
    /\ accessed' = IF op = "del_welcome"
                    THEN (IF r.outcome = OK THEN accessed \ {guild} ELSE accessed)
                    ELSE IF r.outcome \in {StorageError, AssertionFailed}
                         THEN accessed ELSE accessed \cup {guild}
    /\ UNCHANGED <<text_channels, restarts, journal, event, cmd>>

\* The hook 'on_guild_join', or a direct call of add_welcome.
AddWelcome ==
    \E guild \in Guilds, fail \in BOOLEAN :
        Finish("add_welcome", guild, None, None,
               add_welcome(cache, store, guild, fail))

\* The hook 'on_guild_leave', or a direct call of del_welcome.
DelWelcome ==
    \E guild \in Guilds, fail \in BOOLEAN :
        Finish("del_welcome", guild, None, None,
               del_welcome(cache, store, guild, fail))

GetWelcome ==
    \E guild \in Guilds, failSel \in BOOLEAN, failIns \in BOOLEAN :
        Finish("get_welcome", guild, None, None,
               get_welcome(cache, store, guild, failSel, failIns))

SetWelcomeMessage ==
    \E guild \in Guilds, v \in Msgs \cup {None}, fail \in BOOLEAN :
        Finish("set", guild, "welcome_message", v,
               set_welcome_message(cache, store, guild, v, fail))

SetGoodbyeMessage ==
    \E guild \in Guilds, v \in Msgs \cup {None}, fail \in BOOLEAN :
        Finish("set", guild, "goodbye_message", v,
               set_goodbye_message(cache, store, guild, v, fail))

SetAgreedMessage ==
    \E guild \in Guilds, v \in Msgs \cup {None}, fail \in BOOLEAN :
        Finish("set", guild, "agreed_message", v,
               set_agreed_message(cache, store, guild, v, fail))

SetDeleteOnAgree ==
    \E guild \in Guilds, v \in BOOLEAN, fail \in BOOLEAN :
        Finish("set", guild, "delete_on_agree", v,
               set_delete_on_agree(cache, store, guild, v, fail))

\* The caller passes None or a channel that exists, of any guild.
SetWelcomeChannel ==
    \E guild \in Guilds, fail \in BOOLEAN :
        \E ch \in UNION {text_channels[g] : g \in Guilds} \cup {None} :
            Finish("set", guild, "welcome_channel", ch,
                   set_welcome_channel(cache, store, guild, ch, fail))

\* The process restarts: WelcomeModel.__init__ runs again, the table stays.
Restart ==
    /\ restarts < MaxRestarts
    /\ restarts' = restarts + 1
    /\ cache' = <<>>
    /\ last' = [NoCall EXCEPT !.op = "restart"]
    /\ journal' = <<>>
    /\ gen' = [g \in Guilds |-> 0]
    /\ held' = [g \in Guilds |-> {}]
    /\ UNCHANGED <<store, text_channels, calls, accessed, event, cmd>>

\* Tracking.on_guild_channel_delete: the platform has removed the channel
\* from its guild, and the listener journals the event.
OnGuildChannelDelete ==
    \E g \in Guilds : \E ch \in text_channels[g] :
        /\ text_channels' = [text_channels EXCEPT ![g] = @ \ {ch}]
        /\ journal' = on_guild_channel_delete(g, ch)
        /\ event' = Event("guild_channel_delete", g, ch, None, None)
        /\ last' = [NoCall EXCEPT !.op = "channel_delete"]
        /\ UNCHANGED <<cache, store, restarts, calls, gen, held, accessed, cmd>>

Next ==
    \/ AddWelcome
    \/ DelWelcome
    \/ GetWelcome
    \/ SetWelcomeMessage
    \/ SetGoodbyeMessage
    \/ SetAgreedMessage
    \/ SetDeleteOnAgree
    \/ SetWelcomeChannel
    \/ Restart
    \/ OnGuildChannelDelete

Spec == Init /\ [][Next]_vars

OnTyping ==
    \E p \in Places, u \in Users :
        Track("typing", p, u, None, on_typing(p[1], p[2], u))

OnMessage ==
    \E p \in Places, u \in Users, id \in MsgIds :
        Track("message", p, u, id, on_message(p[1], p[2], u, id))

OnMessageEdit ==
    \E p \in Places, u \in Users, id \in MsgIds :
        Track("message_edit", p, u, id, on_message_edit(p[1], p[2], u, id))

OnMessageDelete ==
    \E p \in Places, u \in Users, id \in MsgIds :
        Track("message_delete", p, u, id, on_message_delete(p[1], p[2], u, id))

OnReactionAdd ==
    \E p \in Places, u \in Users, id \in MsgIds :
        Track("reaction_add", p, u, id, on_reaction_add(p[1], p[2], u, id))

OnReactionRemove ==
    \E p \in Places, u \in Users, id \in MsgIds :
        Track("reaction_remove", p, u, id, on_reaction_remove(p[1], p[2], u, id))

OnReactionClear ==
    \E p \in Places, id \in MsgIds :
        Track("reaction_clear", p, None, id, on_reaction_clear(p[1], p[2], id))

\* The tracking cog alone: the platform delivers events to its listeners.
TrackingNext ==
    \/ OnTyping
    \/ OnMessage
    \/ OnMessageEdit
    \/ OnMessageDelete
    \/ OnReactionAdd
    \/ OnReactionRemove
    \/ OnReactionClear
    \/ OnGuildChannelDelete

TrackingSpec == Init /\ [][TrackingNext]_vars

\* A member calls the 'message' command in a guild.
MessageCommand ==
    \E mod \in BOOLEAN, idseq \in IdSeqs(MaxIds), existing \in SUBSET MsgIds :
        /\ cmd' = Command(mod, idseq, existing, message(mod, idseq, existing))
        /\ UNCHANGED <<cache, store, text_channels, restarts, calls, journal,
                       last, gen, held, accessed, event>>

\* The info cog alone.
InfoNext == MessageCommand

InfoSpec == Init /\ [][InfoNext]_vars


TypeOK ==
    /\ DOMAIN cache \subseteq Guilds
    /\ DOMAIN store \subseteq Guilds
    /\ restarts \in 0..MaxRestarts

\* ------------------------------------------------------------ the claims

\* The column of the table that holds a field of the record.
ColumnOf(field) ==
    IF field = "welcome_channel" THEN "welcome_channel_id" ELSE field

\* A cached record and a row hold the same values.
SameAsRow(entry, row) ==
    /\ entry.welcome_message = row.welcome_message
    /\ entry.goodbye_message = row.goodbye_message
    /\ entry.agreed_message = row.agreed_message
    /\ entry.delete_on_agree = row.delete_on_agree
    /\ welcome_channel_id(entry) = row.welcome_channel_id

\* The all-default record and the all-default row of a guild.
DefaultRecord(guild) ==
    [guild |-> guild, welcome_message |-> None, goodbye_message |-> None,
     agreed_message |-> None, delete_on_agree |-> TRUE,
     welcome_channel |-> None]

DefaultRow ==
    [welcome_message |-> None, goodbye_message |-> None,
     agreed_message |-> None, delete_on_agree |-> TRUE,
     welcome_channel_id |-> None]

\* The number of INSERT statements among the statements of a call.
Inserts(stmts) == Cardinality({i \in DOMAIN stmts : stmts[i] = "insert"})

\* What a get_welcome whose statements all succeed does in this state.
NextGet(guild) == get_welcome(cache, store, guild, FALSE, FALSE)

\* The step is a call of a WelcomeModel method.
IsCall == calls' = calls + 1

\* C1: after a mutation (add_welcome, del_welcome, a setter) has returned,
\* every cached record equals the row of its guild, field by field, and a
\* get_welcome of that guild returns a record equal to the row.
C1_CacheEqualsStore ==
    (last.op \in {"add_welcome", "del_welcome", "set"} /\ last.outcome = OK)
    => \A g \in DOMAIN cache :
          /\ g \in DOMAIN store
          /\ SameAsRow(cache[g], store[g])
          /\ SameAsRow(NextGet(g).result[1], store[g])

\* C2: a setter call set_field(S, F, v) followed by get_welcome(S), neither
\* hit by a failing statement nor by the channel assert, returns a record
\* whose field F is v, whatever S had before.
C2_ReadYourWrites ==
    [][(/\ IsCall
        /\ last.op = "set"
        /\ last.outcome \in {OK, KeyErrorRaised}
        /\ last'.op = "get_welcome"
        /\ last'.guild = last.guild
        /\ last'.outcome # StorageError)
       => (/\ last'.outcome = OK
           /\ last'.result[1][last.field] = last.value)]_vars

\* C3: get_welcome of a guild with no row and no cache entry, when no
\* statement fails, returns normally the all-default record, executes
\* exactly one INSERT, and the row it leaves holds the defaults.
C3_GetCreatesDefault ==
    (/\ last.op = "get_welcome"
     /\ last.old_row = <<>>
     /\ last.old_entry = <<>>
     /\ last.outcome # StorageError)
    => (/\ last.outcome = OK
        /\ last.result = <<DefaultRecord(last.guild)>>
        /\ Inserts(last.stmts) = 1
        /\ RowOf(store, last.guild) = <<DefaultRow>>)

C3_Witness ==
    /\ last.op = "get_welcome"
    /\ last.old_row = <<>>
    /\ last.old_entry = <<>>
    /\ last.outcome = OK
    /\ last.guild \in DOMAIN store

\* C4: a get_welcome(S) right after a del_welcome(S) that returned, with
\* no failing statement, returns the all-default record and executes one
\* INSERT that leaves the default row, exactly as get_welcome does on a
\* guild never seen; nothing of the removed record survives.
C4_RemoveThenGet ==
    (/\ last.op = "get_welcome"
     /\ last.after_del # <<>>
     /\ last.outcome # StorageError)
    => (/\ last.outcome = OK
        /\ last.result = <<DefaultRecord(last.guild)>>
        /\ Inserts(last.stmts) = 1
        /\ RowOf(store, last.guild) = <<DefaultRow>>
        /\ last.result = get_welcome(<<>>, <<>>, last.guild, FALSE, FALSE).result
        /\ last.stmts = get_welcome(<<>>, <<>>, last.guild, FALSE, FALSE).stmts)

\* A get_welcome right after the del_welcome of a record that a setter had
\* changed.
C4_Witness ==
    /\ last.op = "get_welcome"
    /\ last.outcome = OK
    /\ last.after_del # <<>>
    /\ last.after_del[1] # <<>>
    /\ last.after_del[1] # <<DefaultRow>>

\* C5: add_welcome of a guild that already has a row ends in an error, and
\* the row and the cache entry of the guild are what they were before.
C5_SecondCreateFails ==
    (last.op = "add_welcome" /\ last.old_row # <<>>)
    => (/\ last.outcome \in {IntegrityError, StorageError}
        /\ RowOf(store, last.guild) = last.old_row
        /\ EntryOf(cache, last.guild) = last.old_entry)

C5_Witness ==
    /\ last.op = "add_welcome"
    /\ last.outcome = IntegrityError
    /\ last.old_entry # <<>>
    /\ last.old_row # <<DefaultRow>>
    /\ RowOf(store, last.guild) = last.old_row

\* C6: set_welcome_channel with a channel of another guild ends in an error
\* without executing a statement; the row and the cache entry of the guild
\* are what they were before.
C6_ForeignChannelRejected ==
    (/\ last.op = "set"
     /\ last.field = "welcome_channel"
     /\ last.value # None
     /\ ChannelGuild[last.value] # last.guild)
    => (/\ last.outcome = AssertionFailed
        /\ last.stmts = <<>>
        /\ RowOf(store, last.guild) = last.old_row
        /\ EntryOf(cache, last.guild) = last.old_entry)

C6_Witness ==
    /\ last.op = "set"
    /\ last.field = "welcome_channel"
    /\ last.value # None
    /\ ChannelGuild[last.value] # last.guild
    /\ last.outcome = AssertionFailed
    /\ last.old_row # <<>>
    /\ last.old_entry # <<>>

\* C7: when the statement of a setter or of add_welcome fails, the cache
\* entry of the guild (or its absence) is what it was before the call.
C7_FailedWriteKeepsCache ==
    (/\ last.op \in {"set", "add_welcome"}
     /\ last.outcome \in {StorageError, IntegrityError})
    => EntryOf(cache, last.guild) = last.old_entry

C7_Witness ==
    /\ last.op = "set"
    /\ last.outcome = StorageError
    /\ last.old_entry # <<>>
    /\ last.field = "welcome_message"
    /\ last.old_entry[1].welcome_message # last.value
    /\ EntryOf(cache, last.guild) = last.old_entry

\* C8: after a get_welcome or a setter that raised, either the row and the
\* cache entry of the guild are what they were before, or the write is in
\* the row and the next get_welcome returns it; the row never holds a new
\* value that the next get_welcome does not return.
C8_FailedCallWellDefined ==
    (last.op \in {"set", "get_welcome"} /\ last.outcome # OK)
    => \/ /\ RowOf(store, last.guild) = last.old_row
          /\ EntryOf(cache, last.guild) = last.old_entry
       \/ /\ last.op = "set"
          /\ last.guild \in DOMAIN store
          /\ store[last.guild][ColumnOf(last.field)] = last.value
          /\ NextGet(last.guild).outcome = OK
          /\ NextGet(last.guild).result[1][last.field] = last.value

\* A setter that raised after its UPDATE had changed the row.
C8_Witness ==
    /\ last.op = "set"
    /\ last.outcome = KeyErrorRaised
    /\ RowOf(store, last.guild) # last.old_row
    /\ NextGet(last.guild).result[1][last.field] = last.value

\* C9: a del_welcome whose statement does not fail returns normally and
\* leaves the guild without row and without cache entry; on a guild that
\* had neither it changes nothing, so a second del_welcome changes nothing.
C9_RemoveIdempotent ==
    [][(/\ IsCall
        /\ last'.op = "del_welcome"
        /\ last'.outcome # StorageError)
       => (/\ last'.outcome = OK
           /\ last'.guild \notin DOMAIN store'
           /\ last'.guild \notin DOMAIN cache'
           /\ (last'.guild \notin DOMAIN store /\ last'.guild \notin DOMAIN cache
               => store' = store /\ cache' = cache)
           /\ del_welcome(cache', store', last'.guild, FALSE).outcome = OK
           /\ del_welcome(cache', store', last'.guild, FALSE).cache = cache'
           /\ del_welcome(cache', store', last'.guild, FALSE).store = store')]_vars

\* A del_welcome of a guild with no row and no cache entry.
C9_Witness ==
    /\ last.op = "del_welcome"
    /\ last.outcome = OK
    /\ last.old_row = <<>>
    /\ last.old_entry = <<>>
    /\ DOMAIN store # {}

\* C10: the setters of welcome_message and goodbye_message called one
\* after the other on one guild, in either order and with no failing
\* statement, both apply: the row and the record get_welcome returns then
\* hold both values.
C10_NoLostUpdate ==
    [][(/\ IsCall
        /\ last.op = "set"
        /\ last'.op = "set"
        /\ last'.guild = last.guild
        /\ {last.field, last'.field} = {"welcome_message", "goodbye_message"}
        /\ last.outcome # StorageError
        /\ last'.outcome # StorageError)
       => (/\ last'.guild \in DOMAIN store'
           /\ store'[last.guild][last.field] = last.value
           /\ store'[last.guild][last'.field] = last'.value
           /\ get_welcome(cache', store', last.guild, FALSE, FALSE).result[1][last.field]
                  = last.value
           /\ get_welcome(cache', store', last.guild, FALSE, FALSE).result[1][last'.field]
                  = last'.value)]_vars

\* The objects of a guild that are in use: the one in the cache and those
\* get_welcome has returned.
RecordsOf(g) == held[g] \cup (IF g \in DOMAIN cache THEN {gen[g]} ELSE {})

\* C11: as long as a guild is not removed, there is one in-memory record
\* of it at most: every record get_welcome has returned for the guild is
\* the object in the cache, which is the object the setters assign to.
C11_OneRecordPerGuild ==
    \A g \in Guilds : Cardinality(RecordsOf(g)) <= 1

\* The first call was a get_welcome that missed and created the record;
\* the second is a setter that changed that record.
C11_Witness ==
    /\ calls = 2
    /\ restarts = 0
    /\ last.op = "set"
    /\ last.outcome = OK
    /\ held[last.guild] = {gen[last.guild]}
    /\ EntryOf(cache, last.guild) # last.old_entry

\* C12: a guild not passed to add_welcome, get_welcome or a setter (or
\* removed since) has no row and no cache entry, and a guild passed to one
\* of them and not removed since has a row (the table holds one row per
\* guild at most, the cache one entry).
C12_LazyCreation ==
    \A g \in Guilds :
        /\ g \notin accessed => g \notin DOMAIN store /\ g \notin DOMAIN cache
        /\ g \in accessed => g \in DOMAIN store

\* C13: the welcome channel of a cached record, when there is one, is a
\* channel of the record's guild.
C13_ChannelInOwnGuild ==
    \A g \in DOMAIN cache :
        /\ cache[g].guild = g
        /\ cache[g].welcome_channel # None
           => ChannelGuild[cache[g].welcome_channel] = g

\* A get_welcome has loaded a record with a welcome channel from its row.
C13_Witness ==
    /\ last.op = "get_welcome"
    /\ last.outcome = OK
    /\ last.stmts = <<"select">>
    /\ last.result[1].welcome_channel # None
    /\ cache[last.guild] = last.result[1]

\* C14: a get_welcome that misses the cache and finds the row returns a
\* record equal to the row in every field, the welcome channel included,
\* puts it into the cache, and executes no INSERT and no UPDATE.
C14_LoadEqualsRow ==
    (/\ last.op = "get_welcome"
     /\ last.old_entry = <<>>
     /\ last.old_row # <<>>
     /\ last.outcome = OK)
    => (/\ SameAsRow(last.result[1], last.old_row[1])
        /\ EntryOf(cache, last.guild) = last.result
        /\ last.stmts = <<"select">>
        /\ RowOf(store, last.guild) = last.old_row)

\* C15: a get_welcome of a guild that has a cache entry returns that entry,
\* executes no statement and leaves the cache and the table as they were.
C15_CacheHit ==
    [][(/\ IsCall
        /\ last'.op = "get_welcome"
        /\ last'.guild \in DOMAIN cache)
       => (/\ last'.outcome = OK
           /\ last'.result = <<cache[last'.guild]>>
           /\ last'.stmts = <<>>
           /\ cache' = cache
           /\ store' = store)]_vars

\* A get_welcome served from the cache, of a record a setter had changed.
C15_Witness ==
    /\ last.op = "get_welcome"
    /\ last.old_entry # <<>>
    /\ last.old_entry # <<DefaultRecord(last.guild)>>
    /\ last.result = last.old_entry
    /\ last.stmts = <<>>

\* The statement sequences of a call in which no statement is repeated.
StatementsOnce(op) ==
    CASE op = "add_welcome" -> {<<"insert">>}
      [] op = "del_welcome" -> {<<"delete">>}
      [] op = "get_welcome" -> {<<>>, <<"select">>, <<"select", "insert">>}
      [] op = "set" -> {<<>>, <<"update">>}
      [] OTHER -> {<<>>}

\* C16: no call executes a statement twice; a call that ended in a store
\* error ended at the failing statement, with the table and the cache entry
\* of the guild as they were; and a call that returned normally has its
\* effect in the table, so no failure was swallowed.
C16_NoRetry ==
    /\ last.stmts \in StatementsOnce(last.op)
    /\ last.outcome \in {StorageError, IntegrityError}
       => (/\ last.stmts # <<>>
           /\ RowOf(store, last.guild) = last.old_row
           /\ EntryOf(cache, last.guild) = last.old_entry)
    /\ (last.outcome = OK /\ last.op \in {"add_welcome", "get_welcome"})
       => last.guild \in DOMAIN store
    /\ (last.outcome = OK /\ last.op = "del_welcome")
       => last.guild \notin DOMAIN store
    /\ (last.outcome = OK /\ last.op = "set")
       => (/\ last.guild \in DOMAIN store
           /\ store[last.guild][ColumnOf(last.field)] = last.value)

\* A get_welcome whose SELECT found no row and whose INSERT failed.
C16_Witness ==
    /\ last.op = "get_welcome"
    /\ last.outcome = StorageError
    /\ last.stmts = <<"select", "insert">>
    /\ last.guild \notin DOMAIN store

\* C17: in add_welcome and the setters the statement comes before the
\* cache assignment: whenever such a call has changed the cache entry of
\* its guild, whatever its outcome, it has executed its statement and the
\* row holds what the call put into the cache.
C17_StoreBeforeCache ==
    (/\ last.op \in {"add_welcome", "set"}
     /\ EntryOf(cache, last.guild) # last.old_entry)
    => (/\ last.outcome = OK
        /\ last.guild \in DOMAIN store
        /\ last.guild \in DOMAIN cache
        /\ last.op = "set"
           => (/\ last.stmts = <<"update">>
               /\ store[last.guild][ColumnOf(last.field)] = last.value
               /\ cache[last.guild][last.field] = last.value)
        /\ last.op = "add_welcome"
           => (/\ last.stmts = <<"insert">>
               /\ last.old_row = <<>>
               /\ SameAsRow(cache[last.guild], store[last.guild])))

\* set_delete_on_agree has changed the cached record.
C17_Witness ==
    /\ last.op = "set"
    /\ last.field = "delete_on_agree"
    /\ last.outcome = OK
    /\ last.old_entry # <<>>
    /\ last.old_entry[1].delete_on_agree # last.value
    /\ cache[last.guild].delete_on_agree = last.value
    /\ store[last.guild].delete_on_agree = last.value

\* The columns of the table and the attributes of a cached record.
Columns ==
    {"welcome_message", "goodbye_message", "agreed_message",
     "delete_on_agree", "welcome_channel_id"}

Attributes ==
    {"guild", "welcome_message", "goodbye_message", "agreed_message",
     "delete_on_agree", "welcome_channel"}

\* C18: a setter of field F called for guild S changes nothing but column
\* F of the row of S and attribute F of the cached record of S: the other
\* columns and attributes of S, the rows and cache entries of the other
\* guilds, and the sets of guilds with a row or an entry stay as they were.
C18_SingleFieldUpdate ==
    [][(IsCall /\ last'.op = "set")
       => (/\ DOMAIN store' = DOMAIN store
           /\ DOMAIN cache' = DOMAIN cache
           /\ \A g \in DOMAIN store : \A col \in Columns :
                 (g # last'.guild \/ col # ColumnOf(last'.field))
                 => store'[g][col] = store[g][col]
           /\ \A g \in DOMAIN cache : \A attr \in Attributes :
                 (g # last'.guild \/ attr # last'.field)
                 => cache'[g][attr] = cache[g][attr])]_vars

\* A setter has changed the row of its guild while the other guild has a
\* row and a cache entry too.
C18_Witness ==
    /\ last.op = "set"
    /\ last.outcome = OK
    /\ RowOf(store, last.guild) # last.old_row
    /\ DOMAIN store = Guilds
    /\ DOMAIN cache = Guilds

\* The kinds of event the claim speaks of, and the topic of each.
TopicOf(kind) ==
    CASE kind = "typing" -> "typing"
      [] kind = "message" -> "message/new"
      [] kind = "message_edit" -> "message/edit"
      [] kind = "message_delete" -> "message/delete"
      [] kind = "reaction_add" -> "reaction/add"
      [] kind = "reaction_remove" -> "reaction/remove"
      [] kind = "reaction_clear" -> "reaction/clear"

Republished ==
    {"typing", "message", "message_edit", "message_delete",
     "reaction_add", "reaction_remove", "reaction_clear"}

\* C19: for a typing, message, edit, delete, reaction-add, reaction-remove
\* or reaction-clear event in a guild the listener makes exactly one
\* journal send, with that guild and the topic of the event's kind; for
\* such an event without a guild it makes none.
C19_RepublishedOnce ==
    event.kind \in Republished
    => IF event.guild = None
       THEN journal = <<>>
       ELSE /\ Len(journal) = 1
            /\ journal[1].guild = event.guild
            /\ journal[1].topic = TopicOf(event.kind)

\* A reaction was removed in a guild and the listener has journalled it.
C19_Witness ==
    /\ event.kind = "reaction_remove"
    /\ event.guild \in Guilds
    /\ Len(journal) = 1
    /\ journal[1].topic = "reaction/remove"

\* The embed the command owes for an id.
ExpectedEmbed(c, id) ==
    [kind |-> "embed", id |-> id, found |-> id \in c.existing]

\* C20: a caller without moderator permission who gives more than 3 ids
\* gets the 'Too many messages requested' notice and then exactly 3
\* embeds, for the first 3 ids in order; any other caller gets exactly one
\* embed for every id given, in order; then the SUCCESS reaction is added.
C20_ThreeEmbedsAfterNotice ==
    cmd.op = "message"
    => /\ cmd.reaction = "SUCCESS"
       /\ IF ~cmd.mod /\ Len(cmd.ids) > 3
          THEN /\ Len(cmd.sent) = 4
               /\ cmd.sent[1].kind = "content"
               /\ \A i \in 1..3 : cmd.sent[i + 1] = ExpectedEmbed(cmd, cmd.ids[i])
          ELSE /\ Len(cmd.sent) = Len(cmd.ids)
               /\ \A i \in 1..Len(cmd.ids) :
                     cmd.sent[i] = ExpectedEmbed(cmd, cmd.ids[i])

====
